---- MODULE Spec2Model ----
(***************************************************************************)
(* streamlit_supabase_storage_browser: the bucket query/listing layer      *)
(* (Bucket._query, Bucket.list, Bucket.exists, translate_storage_file),    *)
(* the extension-driven preview dispatcher (PREVIEW_HANDLERS,              *)
(* show_file_preview) and the widget orchestrator                          *)
(* (st_supabase_storage_browser).                                          *)
(*                                                                         *)
(* Strings are sequences of one-character strings, so that suffix tests,   *)
(* os.path.splitext, fnmatch and SQL LIKE are computed character by        *)
(* character.  An Optional value is a sequence of length 0 (None) or 1.    *)
(***************************************************************************)
EXTENDS Integers, Sequences, FiniteSets, TLC

VARIABLES
    objects,            \* rows of storage.objects, in provider order
    bucket,             \* the Bucket handle: bucket_id, path, extensions
    listed,             \* the last Bucket.list call and what it returned
    probed,             \* the last Bucket.exists call and what it returned
    PREVIEW_HANDLERS,   \* the module-level extension -> handler registry
    shown,              \* the last show_file_preview call and what it did
    history,            \* calls made so far and the keys they overrode
    widget              \* one st_supabase_storage_browser invocation

vars == <<objects, bucket, listed, probed, PREVIEW_HANDLERS, shown, history, widget>>

-----------------------------------------------------------------------------
(* Bounds of the model.                                                    *)

MaxRows == 2        \* rows held by storage.objects
MaxCalls == 3       \* show_file_preview calls in one run

-----------------------------------------------------------------------------
(* Strings.                                                                *)

None == <<>>
Some(x) == <<x>>
IsNone(o) == o = <<>>
Val(o) == o[1]

Range(s) == {s[i] : i \in 1..Len(s)}

\* str.endswith
endswith(s, suffix) ==
    /\ Len(suffix) <= Len(s)
    /\ SubSeq(s, Len(s) - Len(suffix) + 1, Len(s)) = suffix

\* str.rfind, 1-based, 0 when the character does not occur
rfind(s, c) ==
    LET hits == {i \in 1..Len(s) : s[i] = c}
    IN  IF hits = {} THEN 0 ELSE CHOOSE i \in hits : \A j \in hits : j <= i

\* os.path.splitext(p)[1]: from the last dot of the last path component,
\* unless that component consists of leading dots only up to that dot.
splitext(p) ==
    LET sepIndex == rfind(p, "/")
        dotIndex == rfind(p, ".")
    IN  IF dotIndex > sepIndex
           /\ \E i \in (sepIndex + 1)..(dotIndex - 1) : p[i] # "."
        THEN SubSeq(p, dotIndex, Len(p))
        ELSE <<>>

\* fnmatch.fnmatch(name, pat) on a POSIX host (normcase is the identity):
\* '*' matches any run of characters, '/' included, '?' any one character,
\* every other character itself; the whole name must match.  Patterns of the
\* model hold no '[' (character classes).
RECURSIVE fnmatch(_, _)
fnmatch(name, pat) ==
    IF pat = <<>> THEN name = <<>>
    ELSE IF Head(pat) = "*"
         THEN \/ fnmatch(name, Tail(pat))
              \/ (name # <<>> /\ fnmatch(Tail(name), pat))
    ELSE IF Head(pat) = "?"
         THEN name # <<>> /\ fnmatch(Tail(name), Tail(pat))
    ELSE name # <<>> /\ Head(name) = Head(pat) /\ fnmatch(Tail(name), Tail(pat))

\* The provider's LIKE: '%' matches any run of characters, '_' any one
\* character, every other character itself; the whole value must match.
RECURSIVE Like(_, _)
Like(value, pat) ==
    IF pat = <<>> THEN value = <<>>
    ELSE IF Head(pat) = "%"
         THEN \/ Like(value, Tail(pat))
              \/ (value # <<>> /\ Like(Tail(value), pat))
    ELSE IF Head(pat) = "_"
         THEN value # <<>> /\ Like(Tail(value), Tail(pat))
    ELSE value # <<>> /\ Head(value) = Head(pat) /\ Like(Tail(value), Tail(pat))

-----------------------------------------------------------------------------
(* Bucket: the query builder, the record translator and the glob filter.   *)

\* Bucket.__init__: extensions or ()
NewBucket(bucket_id, path, extensions) ==
    [bucket_id |-> bucket_id,
     path |-> path,
     extensions |-> IF IsNone(extensions) THEN <<>> ELSE Val(extensions)]

\* Bucket._query: the filters the query carries.
\*   .eq('bucket_id', id); .like('name', f'{path}%') when path is not None;
\*   .like_any_of('name', '%e1,%e2,...') when extensions is non-empty.
_query(b) ==
    [eq_bucket_id |-> b.bucket_id,
     like |-> IF IsNone(b.path) THEN None ELSE Some(Val(b.path) \o <<"%">>),
     like_any_of |-> IF b.extensions # <<>>
                     THEN Some([i \in 1..Len(b.extensions) |-> <<"%">> \o b.extensions[i]])
                     ELSE None,
     eq_name |-> None,
     limit |-> None,
     offset |-> None]

\* Whether a stored row passes the filters of a query.
Passes(q, row) ==
    /\ row.bucket_id = q.eq_bucket_id
    /\ IsNone(q.like) \/ Like(row.name, Val(q.like))
    /\ IsNone(q.like_any_of)
       \/ \E i \in 1..Len(Val(q.like_any_of)) : Like(row.name, Val(q.like_any_of)[i])
    /\ IsNone(q.eq_name) \/ row.name = Val(q.eq_name)

\* The selected columns: name, created_at, updated_at, last_accessed_at,
\* metadata->size.
Columns(row) ==
    [name |-> row.name,
     created_at |-> row.created_at,
     updated_at |-> row.updated_at,
     last_accessed_at |-> row.last_accessed_at,
     size |-> row.size]

Min(a, b) == IF a <= b THEN a ELSE b

\* query.execute().data: the passing rows in provider order, then the offset,
\* then the limit.
execute(q, store) ==
    LET passing == SelectSeq(store, LAMBDA row : Passes(q, row))
        data == [i \in 1..Len(passing) |-> Columns(passing[i])]
        skip == IF IsNone(q.offset) THEN 0 ELSE Min(Val(q.offset), Len(data))
        rest == SubSeq(data, skip + 1, Len(data))
    IN  IF IsNone(q.limit) THEN rest ELSE SubSeq(rest, 1, Min(Val(q.limit), Len(rest)))

\* datetime.fromisoformat(s).timestamp() / 1000: a stored timestamp is held as
\* its epoch value, the translated one as that value over 1000.
EpochOver1000(t) == [num |-> t, den |-> 1000]

translate_storage_file(storage_file) ==
    [path |-> storage_file.name,
     size |-> storage_file.size,
     access_time |-> EpochOver1000(storage_file.last_accessed_at),
     create_time |-> EpochOver1000(storage_file.created_at),
     update_time |-> EpochOver1000(storage_file.updated_at)]

\* Bucket.list.filter_func: any(fnmatch.fnmatch(file['path'], pattern) ...)
filter_func(file, glob_patterns) ==
    \E i \in 1..Len(glob_patterns) : fnmatch(file.path, glob_patterns[i])

\* A glob filter that collects the matches pattern by pattern.
RECURSIVE GlobFilterPerPattern(_, _)
GlobFilterPerPattern(files, glob_patterns) ==
    IF glob_patterns = <<>> THEN <<>>
    ELSE SelectSeq(files, LAMBDA f : fnmatch(f.path, Head(glob_patterns)))
         \o GlobFilterPerPattern(files, Tail(glob_patterns))

\* tuple(filter(filter_func, files))
GlobFilter(files, glob_patterns) ==
    SelectSeq(files, LAMBDA f : filter_func(f, glob_patterns))

\* The query Bucket.list executes: _query() with limit and offset when given.
ListQuery(b, limit, offset) ==
    [_query(b) EXCEPT !.limit = limit, !.offset = offset]

\* raw_files of Bucket.list
RawFiles(b, limit, offset, store) == execute(ListQuery(b, limit, offset), store)

\* Bucket.list
list(b, glob_patterns, limit, offset, store) ==
    LET raw_files == RawFiles(b, limit, offset, store)
        files == [i \in 1..Len(raw_files) |-> translate_storage_file(raw_files[i])]
    IN  GlobFilter(files, glob_patterns)

\* Bucket.exists: bool(_query().eq('name', path).maybe_single().execute());
\* maybe_single yields None for zero rows, and names are unique in a bucket.
exists(b, path, store) ==
    execute([_query(b) EXCEPT !.eq_name = Some(path)], store) # <<>>

\* Bucket.public_url
public_url(b) == <<"storage_url", "/object/public/", b.bucket_id, "/">>

-----------------------------------------------------------------------------
(* The values the model draws its inputs from.                             *)

P_a_md  == <<"a", ".", "m", "d">>                    \* a.md, at the bucket root
P_b_csv == <<"d", "/", "b", ".", "c", "s", "v">>     \* d/b.csv
P_s_xyz == <<"d", "/", "s", ".", "x", "y", "z">>     \* d/s.xyz, no built-in handler
P_ax    == <<"d", "/", "a", "x">>                    \* d/ax, no extension
P_ux    == <<"d", "/", "_", "x">>                    \* d/_x

Paths == {P_a_md, P_b_csv, P_s_xyz, P_ax, P_ux}

E_csv == <<".", "c", "s", "v">>
E_md  == <<".", "m", "d">>
E_xyz == <<".", "x", "y", "z">>
E_ux  == <<"_", "x">>

Object(bucket_id, name, size, t) ==
    [bucket_id |-> bucket_id, name |-> name, size |-> size,
     created_at |-> t, updated_at |-> t + 1, last_accessed_at |-> t + 2]

\* The rows storage.objects may hold; (bucket_id, name) is unique.
Candidates ==
    {Object("bkt", P_a_md, 7, 1000), Object("bkt", P_b_csv, 42, 2000),
     Object("bkt", P_s_xyz, 9, 3000), Object("bkt", P_ax, 1, 4000),
     Object("bkt", P_ux, 2, 5000), Object("other", P_b_csv, 5, 6000)}

Stores ==
    {s \in UNION {[1..n -> Candidates] : n \in 0..MaxRows} :
        \A i, j \in 1..Len(s) : i # j => s[i] # s[j]}

PathPrefixes == {None, Some(<<"d", "/">>)}

ExtensionLists ==
    {None, Some(<<>>), Some(<<E_csv>>), Some(<<E_csv, E_md>>), Some(<<E_ux>>)}

\* The default of Bucket.list's glob_patterns parameter.
ListDefaultPatterns == << <<"*", "/", "*", "*">> >>

\* The default of st_supabase_storage_browser's glob_patterns parameter.
WidgetDefaultPatterns == << <<"*", "*", "/", "*">> >>

PatternTuples ==
    {ListDefaultPatterns, WidgetDefaultPatterns,
     << <<"*">> >>,
     << <<"*", ".", "c", "s", "v">>, <<"d", "/", "*">> >>,
     << <<"?", ".", "m", "d">>, <<"*", "x">> >>,
     <<>>}

Limits == {None, Some(1)}
Offsets == {None, Some(1)}

NoCall == [called |-> FALSE]

-----------------------------------------------------------------------------
(* Calls of the Bucket operations.                                         *)

\* A host script lists, then probes a path: bucket.list(...) with
\* glob_patterns given or left to its default.  The provider's round trip
\* succeeds, or what it raises propagates.
CallList ==
    /\ ~listed.called
    /\ \/ \E given \in {None} \cup {Some(p) : p \in PatternTuples},
             limit \in Limits, offset \in Offsets :
            LET glob_patterns == IF IsNone(given) THEN ListDefaultPatterns ELSE Val(given)
            IN  listed' =
                    [called |-> TRUE, outcome |-> "ok", given |-> given,
                     glob_patterns |-> glob_patterns,
                     limit |-> limit, offset |-> offset,
                     query |-> ListQuery(bucket, limit, offset),
                     raw_files |-> RawFiles(bucket, limit, offset, objects),
                     files |-> list(bucket, glob_patterns, limit, offset, objects)]
       \/ listed' = [called |-> TRUE, outcome |-> "raise"]
    /\ UNCHANGED <<objects, bucket, probed, PREVIEW_HANDLERS, shown, history, widget>>

\* bucket.exists(path)
CallExists ==
    /\ listed.called
    /\ ~probed.called
    /\ \/ \E path \in Paths :
            probed' = [called |-> TRUE, outcome |-> "ok", path |-> path,
                       result |-> exists(bucket, path, objects)]
       \/ probed' = [called |-> TRUE, outcome |-> "raise"]
    /\ UNCHANGED <<objects, bucket, listed, PREVIEW_HANDLERS, shown, history, widget>>

-----------------------------------------------------------------------------
(* The preview dispatcher.                                                 *)

\* The declarative list PREVIEW_HANDLERS is built from: (extensions, handler).
HandlerPairs ==
    << << << <<".", "j", "s", "o", "n">> >>, "_do_json_preview" >>,
       << << <<".", "p", "d", "f">> >>, "_do_pdf_preview" >>,
       << << <<".", "c", "s", "v">> >>, "_do_csv_preview" >>,
       << << <<".", "t", "s", "v">> >>, "_do_tsv_preview" >>,
       << << <<".", "l", "o", "g">>, <<".", "t", "x", "t">>, <<".", "m", "d">>,
             <<".", "u", "p", "f">>, <<".", "U", "P", "F">>, <<".", "o", "r", "b">> >>,
          "_do_plain_preview" >>,
       << << <<".", "m", "d">> >>, "_do_markdown_preview" >>,
       << << <<".", "p", "y">>, <<".", "s", "h">> >>, "_do_code_preview" >>,
       << << <<".", "h", "t", "m", "l">>, <<".", "h", "t", "m">> >>, "_do_html_preview" >>,
       << << <<".", "d", "b", "n">> >>, "_do_dbn_preview" >> >>

\* for extentions, handler in [...] for extention in extentions
RECURSIVE FlattenPairs(_)
FlattenPairs(pairs) ==
    IF pairs = <<>> THEN <<>>
    ELSE [i \in 1..Len(Head(pairs)[1]) |-> <<Head(pairs)[1][i], Head(pairs)[2]>>]
         \o FlattenPairs(Tail(pairs))

\* A dict comprehension: a key given twice keeps its last value.
DictOf(items) ==
    [k \in {items[i][1] : i \in 1..Len(items)} |->
        LET last == CHOOSE i \in 1..Len(items) :
                        /\ items[i][1] = k
                        /\ \A j \in 1..Len(items) : items[j][1] = k => j <= i
        IN  items[last][2]]

\* PREVIEW_HANDLERS as the module builds it when it is loaded.
LoadTimeHandlers == DictOf(FlattenPairs(HandlerPairs))

\* A merge in which the registry's entry wins on a key collision.
MergeRegistryWins(registry, overrides) ==
    [k \in DOMAIN registry \cup DOMAIN overrides |->
        IF k \in DOMAIN registry THEN registry[k] ELSE overrides[k]]

\* handles = copy.copy(PREVIEW_HANDLERS); handles.update(overrides)
EffectiveHandles(registry, overrides) ==
    [k \in DOMAIN registry \cup DOMAIN overrides |->
        IF k \in DOMAIN overrides THEN overrides[k] ELSE registry[k]]

\* The registry after an update made in place, on the registry itself.
RegistryUpdatedInPlace(registry, overrides) ==
    EffectiveHandles(registry, overrides)

\* The module-level registry after one show_file_preview call: the update is
\* made on a copy, so the registry is what it was.
RegistryAfterCall(registry, overrides) == registry

\* overide_preview_handles or {}
OrEmpty(overide_preview_handles) ==
    IF IsNone(overide_preview_handles) THEN <<>> ELSE Val(overide_preview_handles)

\* urljoin(artifacts_site, target_path) if artifacts_site else None; the
\* resolution of the reference against the base is kept symbolic.
ResolveUrl(artifacts_site, target_path) ==
    IF IsNone(artifacts_site) \/ Val(artifacts_site) = <<>>
    THEN None
    ELSE Some([base |-> Val(artifacts_site), reference |-> target_path])

\* What a handler may do with a URL: return, or raise an Exception (its fetch
\* fails, the content does not parse).  A built-in handler raises when there
\* is no URL, and _do_pdf_preview fetches and parses nothing; a handler given
\* by the caller may do either.
HandlerOutcomes(handler, url) ==
    IF handler \in {"handlerA", "handlerB"} THEN {"return", "raise"}
    ELSE IF IsNone(url) THEN {"raise"}
    ELSE IF handler = "_do_pdf_preview" THEN {"return"}
    ELSE {"return", "raise"}

\* What requests.get(url).content and the sniffing may yield on the fallback
\* path: the fetch raises, or the bytes are an image, a video, an audio
\* stream or none of them.
FetchOutcomes(url) ==
    IF IsNone(url) THEN {"raise"}
    ELSE {"raise", "image", "video", "audio", "unknown"}

\* The outcomes the environment may choose for one call.
PreviewOutcomes(registry, target_path, artifacts_site, overide_preview_handles) ==
    LET url == ResolveUrl(artifacts_site, target_path)
        ext == splitext(target_path)
        handles == EffectiveHandles(registry, OrEmpty(overide_preview_handles))
    IN  IF ext \in DOMAIN handles
        THEN HandlerOutcomes(handles[ext], url)
        ELSE FetchOutcomes(url)

\* show_file_preview, with the outcome of the one preview action it selects.
show_file_preview(registry, target_path, artifacts_site, overide_preview_handles, outcome) ==
    LET url == ResolveUrl(artifacts_site, target_path)
        ext == splitext(target_path)
        handles == EffectiveHandles(registry, OrEmpty(overide_preview_handles))
        call == [called |-> TRUE, target_path |-> target_path,
                 artifacts_site |-> artifacts_site,
                 overide_preview_handles |-> overide_preview_handles,
                 ext |-> ext, url |-> url, outcome |-> outcome]
    IN  IF ext \in DOMAIN handles
        THEN call @@ [invoked |-> Some([handler |-> handles[ext], url |-> url]),
                      fetched |-> FALSE,
                      rendered |-> IF outcome = "raise"
                                   THEN <<"error", "exception">>
                                   ELSE <<"handler">>,
                      raised |-> None]
        ELSE call @@ [invoked |-> None,
                      fetched |-> TRUE,
                      rendered |-> IF outcome = "raise" THEN <<>>
                                   ELSE IF outcome = "unknown" THEN <<"info">>
                                   ELSE <<outcome>>,
                      raised |-> IF outcome = "raise" THEN Some("RequestException")
                                 ELSE None]

HandlerA == "handlerA"
HandlerB == "handlerB"

\* The per-call override maps the model draws from.
OverrideMaps ==
    {None,
     Some([k \in {E_xyz} |-> HandlerA]),
     Some([k \in {E_md} |-> HandlerA]),
     Some([k \in {E_xyz, E_csv} |-> HandlerB])}

Sites == {None, Some(<<"site">>)}

NoHistory == [ncalls |-> 0, overridden |-> {}]

\* One call of show_file_preview by a host script.
CallShowFilePreview ==
    /\ history.ncalls < MaxCalls
    /\ \E target_path \in Paths, artifacts_site \in Sites, overrides \in OverrideMaps :
        \E outcome \in PreviewOutcomes(PREVIEW_HANDLERS, target_path, artifacts_site, overrides) :
            /\ shown' = show_file_preview(PREVIEW_HANDLERS, target_path, artifacts_site,
                                          overrides, outcome)
            /\ PREVIEW_HANDLERS' = RegistryAfterCall(PREVIEW_HANDLERS, OrEmpty(overrides))
            /\ history' = [ncalls |-> history.ncalls + 1,
                           overridden |-> history.overridden \cup DOMAIN OrEmpty(overrides)]
    /\ UNCHANGED <<objects, bucket, listed, probed, widget>>

-----------------------------------------------------------------------------
(* The widget orchestrator: one st_supabase_storage_browser invocation.    *)

\* What the UI bundle may return: nothing, a value that is no dict, or a dict
\* with or without a type and with or without a target.
Event(type, target) == [kind |-> "dict", type |-> type, target |-> target]

Events ==
    {[kind |-> "none"], [kind |-> "value"],
     Event(None, None),
     Event(Some("UPLOAD_FILE"), None),
     Event(Some("DELETE_FILE"), Some([path |-> P_b_csv])),
     Event(Some("SELECT_FILE"), None)}
    \cup {Event(Some("SELECT_FILE"), Some([path |-> p])) : p \in Paths}

\* select_filetype_ignores or []
IgnoreList(select_filetype_ignores) ==
    IF IsNone(select_filetype_ignores) THEN <<>> ELSE Val(select_filetype_ignores)

\* The condition without its suffix filter.
SelectedAnySuffix(event, select_filetype_ignores) ==
    IF event.kind # "dict" THEN "no"
    ELSE IF event.type # Some("SELECT_FILE") THEN "no"
    ELSE IF IsNone(event.target) THEN "KeyError"
    ELSE "yes"

\* The condition of the if statement and the binding file = event["target"]:
\* "yes" when the body goes on to the existence check, "no" when the body is
\* skipped, "KeyError" when a SELECT_FILE event holds no target (raised by
\* the suffix test, or by the binding when there is no suffix to test).
Selected(event, select_filetype_ignores) ==
    IF event.kind # "dict" THEN "no"
    ELSE IF event.type # Some("SELECT_FILE") THEN "no"
    ELSE IF IsNone(event.target) THEN "KeyError"
    ELSE IF \E i \in 1..Len(IgnoreList(select_filetype_ignores)) :
                endswith(Val(event.target).path, IgnoreList(select_filetype_ignores)[i])
         THEN "no"
    ELSE "yes"

\* A body that goes on after the existence check whatever it answered.
AfterExistsUnchecked(found, show_preview) ==
    IF show_preview THEN "preview" ELSE "return"

\* What follows the existence check: the warning and the early return, the
\* preview, or the final return.
AfterExists(found, show_preview) ==
    IF ~found THEN "warn"
    ELSE IF show_preview THEN "preview"
    ELSE "return"

\* preview = st.container() if show_preview and show_preview_top
\*           else contextlib.nullcontext()
PreviewRegion(show_preview, show_preview_top) ==
    IF show_preview /\ show_preview_top THEN "container" ELSE "nullcontext"

NewWidget(params) ==
    [pc |-> "start", params |-> params, region |-> None, event |-> None,
     returned |-> None, raised |-> None, trace |-> <<>>, warnings |-> <<>>]

\* bucket = Bucket(...); files = bucket.list(glob_patterns, limit=..., offset=...);
\* the preview region is chosen.  A failure of the listing propagates.
WidgetList ==
    /\ widget.pc = "start"
    /\ \E ok \in BOOLEAN :
        /\ listed' =
            IF ok
            THEN [called |-> TRUE, outcome |-> "ok",
                  given |-> Some(widget.params.glob_patterns),
                  glob_patterns |-> widget.params.glob_patterns,
                  limit |-> widget.params.limit, offset |-> widget.params.offset,
                  query |-> ListQuery(bucket, widget.params.limit, widget.params.offset),
                  raw_files |-> RawFiles(bucket, widget.params.limit,
                                         widget.params.offset, objects),
                  files |-> list(bucket, widget.params.glob_patterns,
                                 widget.params.limit, widget.params.offset, objects)]
            ELSE [called |-> TRUE, outcome |-> "raise"]
        /\ widget' =
            IF ok
            THEN [widget EXCEPT !.pc = "listed",
                                !.trace = Append(@, "list"),
                                !.region = Some(PreviewRegion(widget.params.show_preview,
                                                              widget.params.show_preview_top))]
            ELSE [widget EXCEPT !.pc = "raised",
                                !.trace = Append(@, "list"),
                                !.raised = Some("APIError")]
    /\ UNCHANGED <<objects, bucket, probed, PREVIEW_HANDLERS, shown, history>>

\* event = _component_func(files=files, ...): the UI bundle returns an event.
WidgetComponent ==
    /\ widget.pc = "listed"
    /\ \E event \in Events :
        widget' = [widget EXCEPT !.pc = "event",
                                 !.trace = Append(@, "ui"),
                                 !.event = Some(event)]
    /\ UNCHANGED <<objects, bucket, listed, probed, PREVIEW_HANDLERS, shown, history>>

\* The if statement on the event, down to the existence check and what
\* follows it: the event is returned, or the body raises, or the preview is
\* next.
WidgetSelect ==
    /\ widget.pc = "event"
    /\ LET event == Val(widget.event)
           selected == Selected(event, widget.params.select_filetype_ignores)
       IN  \/ /\ selected = "no"
              /\ widget' = [widget EXCEPT !.pc = "done", !.returned = Some(event)]
              /\ UNCHANGED probed
           \/ /\ selected = "KeyError"
              /\ widget' = [widget EXCEPT !.pc = "raised", !.raised = Some("KeyError")]
              /\ UNCHANGED probed
           \/ /\ selected = "yes"
              /\ \E ok \in BOOLEAN :
                  LET path == Val(event.target).path
                      found == exists(bucket, path, objects)
                      next == AfterExists(found, widget.params.show_preview)
                  IN  IF ~ok
                      THEN /\ probed' = [called |-> TRUE, outcome |-> "raise"]
                           /\ widget' = [widget EXCEPT !.pc = "raised",
                                                       !.trace = Append(@, "exists"),
                                                       !.raised = Some("APIError")]
                      ELSE /\ probed' = [called |-> TRUE, outcome |-> "ok",
                                         path |-> path, result |-> found]
                           /\ widget' =
                                [widget EXCEPT
                                    !.trace = Append(@, "exists"),
                                    !.pc = IF next = "preview" THEN "preview" ELSE "done",
                                    !.warnings = IF next = "warn" THEN Append(@, path) ELSE @,
                                    !.returned = IF next = "preview" THEN @ ELSE Some(event)]
    /\ UNCHANGED <<objects, bucket, listed, PREVIEW_HANDLERS, shown, history>>

\* with preview, st.expander(...): show_file_preview(file['path'],
\* bucket.public_url, overide_preview_handles=...); then return event.  What
\* show_file_preview raises propagates.
WidgetPreview ==
    /\ widget.pc = "preview"
    /\ LET event == Val(widget.event)
           path == Val(event.target).path
           site == Some(public_url(bucket))
           overrides == widget.params.overide_preview_handles
       IN  \E outcome \in PreviewOutcomes(PREVIEW_HANDLERS, path, site, overrides) :
            LET result == show_file_preview(PREVIEW_HANDLERS, path, site, overrides, outcome)
            IN  /\ shown' = result
                /\ PREVIEW_HANDLERS' = RegistryAfterCall(PREVIEW_HANDLERS, OrEmpty(overrides))
                /\ history' = [ncalls |-> history.ncalls + 1,
                               overridden |-> history.overridden \cup DOMAIN OrEmpty(overrides)]
                /\ widget' =
                    IF IsNone(result.raised)
                    THEN [widget EXCEPT !.pc = "done",
                                        !.trace = Append(@, "preview"),
                                        !.returned = Some(event)]
                    ELSE [widget EXCEPT !.pc = "raised",
                                        !.trace = Append(@, "preview"),
                                        !.raised = result.raised]
    /\ UNCHANGED <<objects, bucket, listed, probed>>

\* Another client of the storage deletes an object between the listing and
\* the selection.
ExternalDelete ==
    /\ widget.pc = "listed"
    /\ \E i \in 1..Len(objects) :
        objects' = SubSeq(objects, 1, i - 1) \o SubSeq(objects, i + 1, Len(objects))
    /\ UNCHANGED <<bucket, listed, probed, PREVIEW_HANDLERS, shown, history, widget>>

-----------------------------------------------------------------------------
(* Specifications.                                                         *)

WidgetParams ==
    [show_preview : BOOLEAN, show_preview_top : BOOLEAN,
     glob_patterns : {WidgetDefaultPatterns, << <<"*">> >>},
     select_filetype_ignores : {None, Some(<<E_csv>>)},
     limit : {None}, offset : {None},
     overide_preview_handles : {None, Some([k \in {E_xyz} |-> HandlerA])}]

Idle == [pc |-> "idle"]

\* A host script calls st_supabase_storage_browser once.
Init ==
    /\ objects \in Stores
    /\ \E extentions \in {None, Some(<<E_csv, E_md>>)} :
        bucket = NewBucket("bkt", None, extentions)
    /\ listed = NoCall
    /\ probed = NoCall
    /\ PREVIEW_HANDLERS = LoadTimeHandlers
    /\ shown = NoCall
    /\ history = NoHistory
    /\ widget \in {NewWidget(params) : params \in WidgetParams}

Next ==
    \/ WidgetList
    \/ WidgetComponent
    \/ WidgetSelect
    \/ WidgetPreview
    \/ ExternalDelete

Spec == Init /\ [][Next]_vars

\* A host script uses a Bucket directly.
InitBucket ==
    /\ objects \in Stores
    /\ \E path \in PathPrefixes, extensions \in ExtensionLists :
        bucket = NewBucket("bkt", path, extensions)
    /\ listed = NoCall
    /\ probed = NoCall
    /\ PREVIEW_HANDLERS = LoadTimeHandlers
    /\ shown = NoCall
    /\ history = NoHistory
    /\ widget = Idle

NextBucket ==
    \/ CallList
    \/ CallExists

SpecBucket == InitBucket /\ [][NextBucket]_vars

\* A host script calls show_file_preview directly, any number of times.
InitPreview ==
    /\ objects = <<>>
    /\ bucket = NewBucket("bkt", None, None)
    /\ listed = NoCall
    /\ probed = NoCall
    /\ PREVIEW_HANDLERS = LoadTimeHandlers
    /\ shown = NoCall
    /\ history = NoHistory
    /\ widget = Idle

NextPreview == CallShowFilePreview

SpecPreview == InitPreview /\ [][NextPreview]_vars

-----------------------------------------------------------------------------
(* Properties.                                                             *)

ListedOk == listed.called /\ listed.outcome = "ok"
ProbedOk == probed.called /\ probed.outcome = "ok"

\* C1: show_file_preview never raises past its boundary: whatever the target
\* path, the handler map and the outcome of the selected preview action, the
\* call returns normally, and a failure is rendered as an error indicator
\* plus the failure detail.
C1_NeverRaises ==
    shown.called =>
        /\ IsNone(shown.raised)
        /\ shown.outcome = "raise" => shown.rendered = <<"error", "exception">>

\* C2: once the listing has succeeded and the UI bundle has returned,
\* st_supabase_storage_browser ends by returning exactly the value the UI
\* bundle returned, whatever that value is and whatever the existence check
\* and the preview do.
C2_ReturnsEvent ==
    (ListedOk /\ widget.pc \in {"done", "raised"} /\ ~IsNone(widget.event)) =>
        /\ widget.pc = "done"
        /\ widget.returned = widget.event

\* C3: when a SELECT_FILE event passes the ignore filter and Bucket.exists
\* reports the target path absent, the widget emits a warning, does not
\* invoke show_file_preview, raises nothing and returns the event unchanged.
C3_StaleSelection ==
    (widget.pc # "idle" /\ ProbedOk /\ ~probed.result) =>
        /\ Val(widget.event).type = Some("SELECT_FILE")
        /\ Val(Val(widget.event).target).path = probed.path
        /\ widget.pc = "done"
        /\ widget.warnings = <<probed.path>>
        /\ ~shown.called
        /\ \A i \in 1..Len(widget.trace) : widget.trace[i] # "preview"
        /\ IsNone(widget.raised)
        /\ widget.returned = widget.event

\* C3, reached: a path that was listed, then deleted, then selected.
C3_Witness ==
    /\ widget.pc = "done"
    /\ ProbedOk /\ ~probed.result
    /\ ListedOk
    /\ \E i \in 1..Len(listed.files) : listed.files[i].path = probed.path
    /\ widget.params.show_preview

\* C4: with no mutation in between, exists(p) is true if and only if list()
\* on the same bucket returns a record whose path is exactly p.
C4_ExistsIffListed ==
    (ListedOk /\ ProbedOk
     /\ IsNone(listed.given) /\ IsNone(listed.limit) /\ IsNone(listed.offset)) =>
        (probed.result <=> \E i \in 1..Len(listed.files) : listed.files[i].path = probed.path)

\* C5: the default glob patterns (of Bucket.list and of the widget) match
\* every path, so a listing with them drops none of the rows the provider
\* query returned.
C5_DefaultPermissive ==
    (ListedOk /\ listed.glob_patterns \in {ListDefaultPatterns, WidgetDefaultPatterns}) =>
        /\ Len(listed.files) = Len(listed.raw_files)
        /\ \A i \in 1..Len(listed.files) : listed.files[i].path = listed.raw_files[i].name

\* C6: with a non-empty extension allow-list every listed record's path ends
\* with one of its extensions; with an empty or absent one the query carries
\* no suffix restriction.
C6_ExtensionSuffix ==
    ListedOk =>
        /\ bucket.extensions # <<>> =>
            \A i \in 1..Len(listed.files) :
                \E k \in 1..Len(bucket.extensions) :
                    endswith(listed.files[i].path, bucket.extensions[k])
        /\ bucket.extensions = <<>> => IsNone(listed.query.like_any_of)

\* C7: the glob filter of Bucket.list returns exactly the translated records
\* whose path matches at least one pattern, each once, in their original
\* relative order.
C7_GlobFilter ==
    ListedOk =>
        LET F == [i \in 1..Len(listed.raw_files) |->
                    translate_storage_file(listed.raw_files[i])]
            R == listed.files
            Matches(f) == \E pattern \in Range(listed.glob_patterns) : fnmatch(f.path, pattern)
        IN  /\ \A i \in 1..Len(F) :
                  Cardinality({j \in 1..Len(R) : R[j] = F[i]})
                      = IF Matches(F[i]) THEN 1 ELSE 0
            /\ \A j \in 1..Len(R) : R[j] \in Range(F)
            /\ \A j, k \in 1..Len(R) :
                  j < k => \E a, b \in 1..Len(F) : a < b /\ F[a] = R[j] /\ F[b] = R[k]

\* C7, reached: two records kept, one of them matched by two patterns.
C7_Witness ==
    /\ ListedOk
    /\ Len(listed.files) >= 2
    /\ Len(listed.glob_patterns) >= 2
    /\ \E i \in 1..Len(listed.files) :
          \A k \in 1..Len(listed.glob_patterns) :
              fnmatch(listed.files[i].path, listed.glob_patterns[k])

\* C8: when the target's extension is a key of the effective handler map
\* (the registry with the overrides on top, the override winning), exactly
\* that handler is invoked with the resolved URL and the sniffing fallback is
\* not run; the fallback runs only when the extension is no key.
C8_ExtensionFirst ==
    shown.called =>
        LET ext == splitext(shown.target_path)
            overrides == OrEmpty(shown.overide_preview_handles)
            isKey == ext \in DOMAIN overrides \/ ext \in DOMAIN LoadTimeHandlers
            handler == IF ext \in DOMAIN overrides THEN overrides[ext]
                       ELSE LoadTimeHandlers[ext]
        IN  /\ isKey => /\ shown.invoked = Some([handler |-> handler, url |-> shown.url])
                        /\ ~shown.fetched
            /\ ~isKey => /\ IsNone(shown.invoked)
                         /\ shown.fetched

\* C8, reached: an override for a key the registry holds too.
C8_Witness ==
    /\ shown.called
    /\ shown.target_path = P_a_md
    /\ shown.overide_preview_handles = Some([k \in {E_md} |-> HandlerA])
    /\ shown.invoked = Some([handler |-> HandlerA, url |-> shown.url])

\* C9: after any sequence of show_file_preview calls the registry is what it
\* was when the module was loaded, and an override of an earlier call has no
\* effect on a later call made without it.
C9_RegistryUnchanged ==
    /\ PREVIEW_HANDLERS = LoadTimeHandlers
    /\ (shown.called /\ shown.ext = E_xyz) =>
          IF E_xyz \in DOMAIN OrEmpty(shown.overide_preview_handles)
          THEN /\ Val(shown.invoked).handler = OrEmpty(shown.overide_preview_handles)[E_xyz]
               /\ ~shown.fetched
          ELSE /\ IsNone(shown.invoked)
               /\ shown.fetched

\* C9, reached: d/s.xyz dispatched without an override after a call that
\* overrode .xyz.
C9_Witness ==
    /\ shown.called
    /\ shown.target_path = P_s_xyz
    /\ IsNone(shown.overide_preview_handles)
    /\ E_xyz \in history.overridden
    /\ shown.fetched

\* C10: the steps of one invocation run in the order list, UI bundle,
\* existence check, preview, each at most once; show_file_preview is invoked
\* only for a SELECT_FILE event whose path has no ignored suffix, that
\* Bucket.exists found, with show_preview enabled; for an ignored suffix or
\* another event neither the existence check nor the preview is performed.
C10_StepOrder ==
    widget.pc # "idle" =>
        LET trace == widget.trace
            ignores == IgnoreList(widget.params.select_filetype_ignores)
            isSelection ==
                /\ ~IsNone(widget.event)
                /\ Val(widget.event).kind = "dict"
                /\ Val(widget.event).type = Some("SELECT_FILE")
            ignored ==
                /\ isSelection
                /\ ~IsNone(Val(widget.event).target)
                /\ \E i \in 1..Len(ignores) :
                      endswith(Val(Val(widget.event).target).path, ignores[i])
        IN  /\ trace = SubSeq(<<"list", "ui", "exists", "preview">>, 1, Len(trace))
            /\ Len(trace) <= 4
            /\ shown.called <=> Len(trace) = 4
            /\ (shown.called \/ widget.pc = "preview") =>
                  /\ isSelection /\ ~ignored
                  /\ ProbedOk /\ probed.result
                  /\ probed.path = Val(Val(widget.event).target).path
                  /\ widget.params.show_preview
            /\ (Len(trace) >= 2 /\ (~isSelection \/ ignored)) =>
                  /\ Len(trace) = 2
                  /\ ~probed.called
                  /\ ~shown.called

\* C10, reached: a preview was shown after an existence check, in a run
\* whose ignore list is not empty.
C10_Witness ==
    /\ widget.pc = "done"
    /\ shown.called
    /\ ~IsNone(widget.params.select_filetype_ignores)
    /\ widget.trace = <<"list", "ui", "exists", "preview">>

====
